---- MODULE Spec2Model ----
(***************************************************************************)
(* pt::Concurrent_queue<T> (src/concurrent_queue.hpp): a blocking FIFO     *)
(* queue made of a std::deque guarded by one std::mutex, with one          *)
(* std::condition_variable on which consumers park while the deque is      *)
(* empty.  Every thread is a caller that issues push, pop(), pop(time) and *)
(* clear() calls; each call is split at the points where the thread can be *)
(* preempted: acquiring the mutex, the critical section, the release, the  *)
(* notification, the wait on the condition variable.                       *)
(***************************************************************************)
EXTENDS Integers, Sequences, FiniteSets, Bags, TLC

\* ---------------------------------------------------------------- bounds
NumThreads == 3      \* caller threads
MaxPush == 2         \* push calls issued in one run, all threads together
MaxTime == 1         \* last instant of the steady clock

Threads == 1..NumThreads
Durations == 0..MaxTime

\* An item is its payload together with the producer that pushed it.  The
\* k-th push of a producer carries the payload k, so the pair tells every
\* item apart while equal payloads arrive from different producers.
NoItem == [val |-> 0, by |-> 0]

VARIABLES
    deque_,     \* std::deque<T> deque_: the items, front first
    mutex_,     \* std::mutex mutex_: 0 when free, else the owning thread
    cv_,        \* std::condition_variable cv_: the threads blocked on it
    pc,         \* pc[t]: where thread t stands in its current call
    item,       \* item[t]: the argument of t's push
    value,      \* value[t]: the local `T value` of t's pop
    time,       \* time[t]: the argument of t's pop(time)
    deadline,   \* deadline[t]: the absolute time wait_for waits until
    now,        \* std::chrono::steady_clock
    pushed,     \* history: the items appended, in the order of the appends
    removed,    \* history: the items taken out, in the order they left the
                \* deque, each with the operation that took it out
    interleaved,\* history: some append came after some removal
    obs         \* obs[t]: what t's current call has observed so far

vars == <<deque_, mutex_, cv_, pc, item, value, time, deadline, now,
          pushed, removed, interleaved, obs>>

\* What a call has observed: the clock when pop(time) was called, the front
\* of the deque when pop(time) first held the mutex, how many times the call
\* has blocked on cv_ (0, 1, or 2 for more than once), how many items had
\* been pushed when pop() first found the deque empty, and whether an item
\* was in the deque at some moment of the window of pop(time).
NoObs == [callTime |-> 0, front |-> NoItem, parks |-> 0, emptyAt |-> 0, sawItem |-> FALSE]

\* ------------------------------------------------------------ the deque
PushBackFront(q, x) == <<x>> \o q
\* deque_.push_back(item)
PushBack(q, x) == Append(q, x)

FrontLast(q) == q[Len(q)]
\* deque_.front()
Front(q) == Head(q)

PopFrontKeep(q) == q
\* deque_.pop_front()
PopFront(q) == Tail(q)

ClearButLast(q) == IF q = <<>> THEN q ELSE <<q[Len(q)]>>
\* deque_.clear()
Clear(q) == <<>>

PredAlways == TRUE
PredInverted == Len(deque_) = 0
\* the predicate of both waits: [this] { return deque_.size(); }
Pred == Len(deque_) > 0

\* --------------------------------------------------------- the history
Items(r) == [i \in 1..Len(r) |-> r[i].item]
RemovedBy(ops) == SelectSeq(removed, LAMBDA e : e.op \in ops)
Popped == Items(RemovedBy({"pop", "tpop"}))
Cleared == Items(RemovedBy({"clear"}))
NoClear == Cleared = <<>>
Out(o, xs) == [i \in 1..Len(xs) |-> [item |-> xs[i], op |-> o]]

\* The push calls issued so far: those that have appended and those still on
\* their way to it.
PushesIssued ==
    Len(pushed) + Cardinality({t \in Threads : pc[t] \in {"push_lock", "push_append"}})
\* Number of pushes thread t has completed so far.
PushSeq(t) == Cardinality({i \in 1..Len(pushed) : pushed[i].by = t})

TimedPcs == {"tp_lock", "tp_check", "tp_parked", "tp_woken", "tp_status",
             "tp_front", "tp_unlock", "tp_empty"}

Init ==
    /\ deque_ = <<>>
    /\ mutex_ = 0
    /\ cv_ = {}
    /\ pc = [t \in Threads |-> "idle"]
    /\ item = [t \in Threads |-> NoItem]
    /\ value = [t \in Threads |-> NoItem]
    /\ time = [t \in Threads |-> 0]
    /\ deadline = [t \in Threads |-> 0]
    /\ now = 0
    /\ pushed = <<>>
    /\ removed = <<>>
    /\ interleaved = FALSE
    /\ obs = [t \in Threads |-> NoObs]

UnlockedAlways == TRUE
\* std::mutex::lock() returns once the mutex is owned by no thread.
Unlocked == mutex_ = 0

\* ------------------------------------------------------------------ push
\* A thread calls push(item).
PushCall(t) ==
    /\ pc[t] = "idle"
    /\ PushesIssued < MaxPush
    /\ item' = [item EXCEPT ![t] = [val |-> PushSeq(t) + 1, by |-> t]]
    /\ pc' = [pc EXCEPT ![t] = "push_lock"]
    /\ UNCHANGED <<deque_, mutex_, cv_, value, time, deadline, now,
                   pushed, removed, interleaved, obs>>

\* std::unique_lock<std::mutex> lock{mutex_};
PushLock(t) ==
    /\ pc[t] = "push_lock"
    /\ Unlocked
    /\ mutex_' = t
    /\ pc' = [pc EXCEPT ![t] = "push_append"]
    /\ UNCHANGED <<deque_, cv_, item, value, time, deadline, now,
                   pushed, removed, interleaved, obs>>

\* deque_.push_back(item);
PushAppend(t) ==
    /\ pc[t] = "push_append"
    /\ deque_' = PushBack(deque_, item[t])
    /\ pushed' = Append(pushed, item[t])
    /\ interleaved' = (interleaved \/ removed # <<>>)
    /\ obs' = [u \in Threads |->
                 IF pc[u] \in TimedPcs /\ now <= obs[u].callTime + time[u]
                 THEN [obs[u] EXCEPT !.sawItem = TRUE] ELSE obs[u]]
    /\ pc' = [pc EXCEPT ![t] = "push_unlock"]
    /\ UNCHANGED <<mutex_, cv_, item, value, time, deadline, now, removed>>

\* the closing brace of the inner block: the lock's destructor unlocks
PushUnlock(t) ==
    /\ pc[t] = "push_unlock"
    /\ mutex_' = 0
    /\ pc' = [pc EXCEPT ![t] = "push_notify"]
    /\ UNCHANGED <<deque_, cv_, item, value, time, deadline, now,
                   pushed, removed, interleaved, obs>>

NotifyNone(ws) == {{}}
NotifyAll(ws) == {ws}
\* cv_.notify_one(): the sets of threads one notification may unblock, given
\* the threads blocked on the condition variable
NotifyOne(ws) == IF ws = {} THEN {{}} ELSE {{w} : w \in ws}

\* A thread leaves the wait of cv_: it is no longer blocked on the condition
\* variable and has to take the mutex again before wait returns.
Woken(p) == IF p = "pop_parked" THEN "pop_woken" ELSE "tp_woken"

\* cv_.notify_one(); and push returns
PushNotify(t) ==
    /\ pc[t] = "push_notify"
    /\ \E ws \in NotifyOne(cv_) :
         /\ cv_' = cv_ \ ws
         /\ pc' = [u \in Threads |->
                     IF u = t THEN "idle" ELSE IF u \in ws THEN Woken(pc[u]) ELSE pc[u]]
    /\ item' = [item EXCEPT ![t] = NoItem]
    /\ UNCHANGED <<deque_, mutex_, value, time, deadline, now,
                   pushed, removed, interleaved, obs>>

\* ----------------------------------------------------------------- pop()
PopCall(t) ==
    /\ pc[t] = "idle"
    /\ pc' = [pc EXCEPT ![t] = "pop_lock"]
    /\ UNCHANGED <<deque_, mutex_, cv_, item, value, time, deadline, now,
                   pushed, removed, interleaved, obs>>

\* std::unique_lock<std::mutex> cv_lock{mutex_};
PopLock(t) ==
    /\ pc[t] = "pop_lock"
    /\ Unlocked
    /\ mutex_' = t
    /\ pc' = [pc EXCEPT ![t] = "pop_wait"]
    /\ UNCHANGED <<deque_, cv_, item, value, time, deadline, now,
                   pushed, removed, interleaved, obs>>

ParkHolding(t, p) ==
    /\ pc' = [pc EXCEPT ![t] = p]
    /\ mutex_' = mutex_
    /\ cv_' = cv_ \cup {t}
    /\ obs' = obs

\* The thread releases the mutex and blocks on cv_ in one atomic step.
Park(t, p) ==
    /\ pc' = [pc EXCEPT ![t] = p]
    /\ mutex_' = 0
    /\ cv_' = cv_ \cup {t}
    /\ obs' = [obs EXCEPT ![t] =
                  [obs[t] EXCEPT !.parks = IF @ = 0 THEN 1 ELSE 2,
                                 !.emptyAt = IF obs[t].parks = 0 /\ p = "pop_parked"
                                             THEN Len(pushed) ELSE @]]

\* cv_.wait(cv_lock, pred) is `while (!pred()) wait(cv_lock);`: with the mutex
\* held the predicate is evaluated, and the thread blocks when it is false.
PopWait(t) ==
    /\ pc[t] = "pop_wait"
    /\ IF Pred
       THEN /\ pc' = [pc EXCEPT ![t] = "pop_front"]
            /\ UNCHANGED <<mutex_, cv_, obs>>
       ELSE Park(t, "pop_parked")
    /\ UNCHANGED <<deque_, item, value, time, deadline, now, pushed, removed, interleaved>>

\* A blocked thread may leave the wait without any notification.
SpuriousWake(t) ==
    /\ t \in cv_
    /\ cv_' = cv_ \ {t}
    /\ pc' = [pc EXCEPT ![t] = Woken(pc[t])]
    /\ UNCHANGED <<deque_, mutex_, item, value, time, deadline, now,
                   pushed, removed, interleaved, obs>>

\* wait(cv_lock) takes the mutex again before it returns; the loop then
\* evaluates the predicate again.
PopReacquire(t) ==
    /\ pc[t] = "pop_woken"
    /\ Unlocked
    /\ mutex_' = t
    /\ pc' = [pc EXCEPT ![t] = "pop_wait"]
    /\ UNCHANGED <<deque_, cv_, item, value, time, deadline, now,
                   pushed, removed, interleaved, obs>>

\* front() and pop_front() of an empty deque are undefined: the read yields
\* any item the storage has held, or nothing sensible.
Stale == {NoItem} \cup {pushed[i] : i \in 1..Len(pushed)}

\* value = deque_.front(); deque_.pop_front();
TakeFront(t, o) ==
    IF deque_ # <<>>
    THEN /\ value' = [value EXCEPT ![t] = Front(deque_)]
         /\ deque_' = PopFront(deque_)
         /\ removed' = removed \o Out(o, <<Front(deque_)>>)
    ELSE /\ \E g \in Stale :
              /\ value' = [value EXCEPT ![t] = g]
              /\ removed' = removed \o Out(o, <<g>>)
         /\ deque_' = deque_

PopTake(t) ==
    /\ pc[t] = "pop_front"
    /\ TakeFront(t, "pop")
    /\ pc' = [pc EXCEPT ![t] = "pop_unlock"]
    /\ UNCHANGED <<mutex_, cv_, item, time, deadline, now, pushed, interleaved, obs>>

\* the closing brace unlocks; return value;
PopReturn(t) ==
    /\ pc[t] = "pop_unlock"
    /\ mutex_' = 0
    /\ value' = [value EXCEPT ![t] = NoItem]
    /\ obs' = [obs EXCEPT ![t] = NoObs]
    /\ pc' = [pc EXCEPT ![t] = "idle"]
    /\ UNCHANGED <<deque_, cv_, item, time, deadline, now, pushed, removed, interleaved>>

\* ------------------------------------------------------------- pop(time)
\* A thread calls pop(time).  The durations are those the clock can outlast.
TPopCall(t, d) ==
    /\ pc[t] = "idle"
    /\ now + d <= MaxTime
    /\ time' = [time EXCEPT ![t] = d]
    /\ pc' = [pc EXCEPT ![t] = "tp_lock"]
    /\ obs' = [obs EXCEPT ![t] = [NoObs EXCEPT !.callTime = now, !.sawItem = (deque_ # <<>>)]]
    /\ UNCHANGED <<deque_, mutex_, cv_, item, value, deadline, now,
                   pushed, removed, interleaved>>

DeadlineNone(d) == now
\* wait_for(lock, rel_time, pred) is wait_until(lock, steady_clock::now() +
\* rel_time, pred): the deadline is computed once, on entry.
Deadline(d) == now + d

\* std::unique_lock<std::mutex> cv_lock{mutex_}; and the entry of wait_for,
\* which reads the clock
TPopLock(t) ==
    /\ pc[t] = "tp_lock"
    /\ Unlocked
    /\ mutex_' = t
    /\ deadline' = [deadline EXCEPT ![t] = Deadline(time[t])]
    /\ pc' = [pc EXCEPT ![t] = "tp_check"]
    /\ obs' = [obs EXCEPT ![t].front = IF deque_ = <<>> THEN NoItem ELSE Head(deque_)]
    /\ UNCHANGED <<deque_, cv_, item, value, time, now, pushed, removed, interleaved>>

\* wait_until(lock, atime, pred), the head of its loop
\*     while (!pred()) if (wait_until(lock, atime) == timeout) return pred();
\* entered with the mutex held: the predicate decides between leaving the
\* wait at once and blocking.
TPopCheck(t) ==
    /\ pc[t] = "tp_check"
    /\ IF Pred
       THEN /\ pc' = [pc EXCEPT ![t] = "tp_front"]
            /\ UNCHANGED <<mutex_, cv_, obs>>
       ELSE Park(t, "tp_parked")
    /\ UNCHANGED <<deque_, item, value, time, deadline, now, pushed, removed, interleaved>>

TimedOutLate(t) == now > deadline[t]
TimedOutEarly(t) == TRUE
TimedOutNever(t) == FALSE
\* The absolute timeout of t's wait has expired.
TimedOut(t) == now >= deadline[t]

\* The wait ends because the deadline has been reached.
TimeoutWake(t) ==
    /\ t \in cv_
    /\ pc[t] = "tp_parked"
    /\ TimedOut(t)
    /\ cv_' = cv_ \ {t}
    /\ pc' = [pc EXCEPT ![t] = "tp_woken"]
    /\ UNCHANGED <<deque_, mutex_, item, value, time, deadline, now,
                   pushed, removed, interleaved, obs>>

\* wait_until(lock, atime) takes the mutex again before it returns
TPopReacquire(t) ==
    /\ pc[t] = "tp_woken"
    /\ Unlocked
    /\ mutex_' = t
    /\ pc' = [pc EXCEPT ![t] = "tp_status"]
    /\ UNCHANGED <<deque_, cv_, item, value, time, deadline, now,
                   pushed, removed, interleaved, obs>>

\* The inner wait has returned with the mutex held.  Its status is timeout
\* when the deadline has expired, and then wait_for returns pred(); otherwise
\* the loop evaluates pred() and blocks again when it is false.  wait_for
\* returning false leads to `return {};`.
TPopStatus(t) ==
    /\ pc[t] = "tp_status"
    /\ IF Pred
       THEN /\ pc' = [pc EXCEPT ![t] = "tp_front"]
            /\ UNCHANGED <<mutex_, cv_, obs>>
       ELSE IF TimedOut(t)
       THEN /\ pc' = [pc EXCEPT ![t] = "tp_empty"]
            /\ UNCHANGED <<mutex_, cv_, obs>>
       ELSE Park(t, "tp_parked")
    /\ UNCHANGED <<deque_, item, value, time, deadline, now, pushed, removed, interleaved>>

\* return {}; the lock's destructor unlocks
TPopReturnEmpty(t) ==
    /\ pc[t] = "tp_empty"
    /\ mutex_' = 0
    /\ time' = [time EXCEPT ![t] = 0]
    /\ deadline' = [deadline EXCEPT ![t] = 0]
    /\ obs' = [obs EXCEPT ![t] = NoObs]
    /\ pc' = [pc EXCEPT ![t] = "idle"]
    /\ UNCHANGED <<deque_, cv_, item, value, now, pushed, removed, interleaved>>

TPopTake(t) ==
    /\ pc[t] = "tp_front"
    /\ TakeFront(t, "tpop")
    /\ pc' = [pc EXCEPT ![t] = "tp_unlock"]
    /\ UNCHANGED <<mutex_, cv_, item, time, deadline, now, pushed, interleaved, obs>>

\* the closing brace unlocks; return value;
TPopReturn(t) ==
    /\ pc[t] = "tp_unlock"
    /\ mutex_' = 0
    /\ value' = [value EXCEPT ![t] = NoItem]
    /\ time' = [time EXCEPT ![t] = 0]
    /\ deadline' = [deadline EXCEPT ![t] = 0]
    /\ obs' = [obs EXCEPT ![t] = NoObs]
    /\ pc' = [pc EXCEPT ![t] = "idle"]
    /\ UNCHANGED <<deque_, cv_, item, now, pushed, removed, interleaved>>

\* ---------------------------------------------------------------- clear()
ClearCall(t) ==
    /\ pc[t] = "idle"
    /\ pc' = [pc EXCEPT ![t] = "clear_lock"]
    /\ UNCHANGED <<deque_, mutex_, cv_, item, value, time, deadline, now,
                   pushed, removed, interleaved, obs>>

\* std::unique_lock<std::mutex> push_lock{mutex_};
ClearLock(t) ==
    /\ pc[t] = "clear_lock"
    /\ Unlocked
    /\ mutex_' = t
    /\ pc' = [pc EXCEPT ![t] = "clear_do"]
    /\ UNCHANGED <<deque_, cv_, item, value, time, deadline, now,
                   pushed, removed, interleaved, obs>>

\* deque_.clear();
ClearDo(t) ==
    /\ pc[t] = "clear_do"
    /\ deque_' = Clear(deque_)
    /\ removed' = removed \o Out("clear", deque_)
    /\ pc' = [pc EXCEPT ![t] = "clear_unlock"]
    /\ UNCHANGED <<mutex_, cv_, item, value, time, deadline, now, pushed, interleaved, obs>>

\* the end of the function unlocks
ClearReturn(t) ==
    /\ pc[t] = "clear_unlock"
    /\ mutex_' = 0
    /\ pc' = [pc EXCEPT ![t] = "idle"]
    /\ UNCHANGED <<deque_, cv_, item, value, time, deadline, now,
                   pushed, removed, interleaved, obs>>

\* ------------------------------------------------------------- the clock
\* Only pop(time) reads the clock: an instant that passes while no such call
\* is in progress is observed by nothing.  The clock runs to MaxTime, and
\* beyond it for as long as a wait in progress has its deadline ahead, so
\* that every deadline a call has computed is an instant the clock reaches.
Tick ==
    /\ \E t \in Threads :
          /\ pc[t] \in TimedPcs
          /\ now < MaxTime \/ (pc[t] # "tp_lock" /\ now < deadline[t])
    /\ now' = now + 1
    /\ UNCHANGED <<deque_, mutex_, cv_, pc, item, value, time, deadline,
                   pushed, removed, interleaved, obs>>

\* ------------------------------------------------------ specifications
\* The steps of a push, and of a pop(), once it has been called.
PushRun(S) ==
    \E t \in S : PushLock(t) \/ PushAppend(t) \/ PushUnlock(t) \/ PushNotify(t)

PopRun(S) ==
    \E t \in S :
        \/ PopLock(t) \/ PopWait(t) \/ SpuriousWake(t)
        \/ PopReacquire(t) \/ PopTake(t) \/ PopReturn(t)

PushSteps(S) == (\E t \in S : PushCall(t)) \/ PushRun(S)

PopSteps(S) == (\E t \in S : PopCall(t)) \/ PopRun(S)

TPopSteps(S) ==
    \E t \in S :
        \/ \E d \in Durations : TPopCall(t, d)
        \/ TPopLock(t) \/ TPopCheck(t) \/ TimeoutWake(t) \/ TPopReacquire(t)
        \/ TPopStatus(t) \/ TPopTake(t) \/ TPopReturn(t) \/ TPopReturnEmpty(t)

ClearSteps(S) ==
    \E t \in S : ClearCall(t) \/ ClearLock(t) \/ ClearDo(t) \/ ClearReturn(t)

\* Spec: thread 1 produces and clears, the other threads consume with both
\* pops, and the clock runs.
Producer == 1
Consumers == Threads \ {Producer}

Next ==
    \/ PushSteps({Producer})
    \/ ClearSteps({Producer})
    \/ PopSteps(Consumers)
    \/ TPopSteps(Consumers)
    \/ Tick

Spec == Init /\ [][Next]_vars

\* SpecFifo: every thread is a producer and a consumer; only push and pop().
NextFifo == PushSteps(Threads) \/ PopSteps(Threads)

SpecFifo == Init /\ [][NextFifo]_vars

\* SpecLive: thread 1 produces and clears, the even consumers call pop() and
\* the odd ones pop(time), under fair scheduling.  A thread that can take a
\* step of a call in progress takes it, the mutex is granted fairly (a thread
\* waiting for it again and again while it is released gets it), and the
\* clock advances.  Nothing obliges a thread to start a call, and nothing
\* obliges a wait to end spuriously.
Untimed == {t \in Consumers : t % 2 = 0}
Timed == Consumers \ Untimed

NextLive ==
    \/ PushSteps({Producer})
    \/ ClearSteps({Producer})
    \/ PopSteps(Untimed)
    \/ TPopSteps(Timed)
    \/ \E t \in Timed : SpuriousWake(t)
    \/ Tick

\* The steps a thread takes while it owns the mutex or needs none.
Running(t) ==
    \/ PushAppend(t) \/ PushUnlock(t) \/ PushNotify(t)
    \/ PopWait(t) \/ PopTake(t) \/ PopReturn(t)
    \/ TPopCheck(t) \/ TimeoutWake(t) \/ TPopStatus(t)
    \/ TPopTake(t) \/ TPopReturn(t) \/ TPopReturnEmpty(t)
    \/ ClearDo(t) \/ ClearReturn(t)

\* The steps in which a thread takes the mutex.
Locking(t) ==
    \/ PushLock(t) \/ PopLock(t) \/ PopReacquire(t)
    \/ TPopLock(t) \/ TPopReacquire(t) \/ ClearLock(t)

Fairness ==
    /\ \A t \in Threads : WF_vars(Running(t)) /\ SF_vars(Locking(t))
    /\ WF_vars(Tick)

SpecLive == Init /\ [][NextLive]_vars /\ Fairness

\* SpecParked: every consumer calls pop() on the empty queue, and the producer
\* starts to push once each of them has blocked.
ParkedPopCall(t) ==
    /\ pushed = <<>>
    /\ PushesIssued = 0
    /\ PopCall(t)

ParkedPushCall ==
    /\ pushed # <<>> \/ \A u \in Consumers : obs[u].parks > 0
    /\ PushCall(Producer)

NextParked ==
    \/ \E t \in Consumers : ParkedPopCall(t)
    \/ PopRun(Consumers)
    \/ ParkedPushCall
    \/ PushRun({Producer})

SpecParked == Init /\ [][NextParked]_vars

\* ----------------------------------------------------------------- claims
Taken == {"pop_unlock", "tp_unlock"}
IsPrefix(a, b) == Len(a) <= Len(b) /\ \A i \in 1..Len(a) : a[i] = b[i]
Count(q, x) == Cardinality({i \in 1..Len(q) : q[i] = x})
\* The bag of the payloads of a sequence of items.
ValBag(q) ==
    [v \in {q[i].val : i \in 1..Len(q)} |-> Cardinality({i \in 1..Len(q) : q[i].val = v})]
From(q, p) == SelectSeq(q, LAMBDA x : x.by = p)

\* C1: when the pushes p1..pn of a single thread went into an empty queue
\* with no pop or clear between them, the successful pops that follow, by
\* pop() or pop(time) of any thread, return p1, p2, ... in this order: the
\* i-th item popped is the i-th item the producer passed to push.
C1_FifoOrder ==
    (~interleaved /\ NoClear) =>
        \A i \in 1..Len(Popped) : Popped[i] = [val |-> i, by |-> Producer]

C1_Witness ==
    /\ ~interleaved /\ NoClear
    /\ Len(pushed) = MaxPush /\ Len(Popped) = MaxPush
    /\ \E i, j \in 1..Len(removed) : removed[i].op = "pop" /\ removed[j].op = "tpop"
    /\ \A t \in Threads : pc[t] = "idle"

\* C2: without clear, whenever as many pops as pushes have taken effect and
\* the queue is empty, the bag of the popped payloads is the bag of the
\* pushed payloads, and every pushed item has been popped exactly once.
C2_NoLossNoDup ==
    (deque_ = <<>> /\ Len(Popped) = Len(pushed)) =>
        /\ ValBag(Popped) = ValBag(pushed)
        /\ \A i \in 1..Len(pushed) : Count(Popped, pushed[i]) = 1

C2_Witness ==
    /\ deque_ = <<>> /\ Len(pushed) = MaxPush /\ Len(Popped) = MaxPush
    /\ \E i, j \in 1..Len(pushed) : pushed[i].by # pushed[j].by /\ pushed[i].val = pushed[j].val
    /\ \A t \in Threads : pc[t] = "idle"

\* C3: no pushed item is returned to two pop calls.  The items popped so far
\* are pairwise different and were all pushed, every removal took exactly
\* one item out of the deque, and a value a thread is about to return is an
\* item popped once, held by that thread alone.
C3_OneCallerPerItem ==
    /\ \A i \in 1..Len(Popped) : Count(Popped, Popped[i]) = 1 /\ Count(pushed, Popped[i]) = 1
    /\ Len(removed) + Len(deque_) = Len(pushed)
    /\ \A t \in Threads : pc[t] \in Taken =>
          /\ Count(Popped, value[t]) = 1
          /\ \A u \in Threads \ {t} : value[u] # value[t]
          /\ \A i \in 1..Len(deque_) : deque_[i] # value[t]

C3_Witness ==
    \E t, u \in Consumers :
        /\ pc[t] = "tp_unlock" /\ pc[u] = "pop_woken"
        /\ Len(Popped) = 2 /\ removed[1].op = "pop"

\* C4: with any number of concurrent producers and consumers the queue is a
\* sequential FIFO queue: the items popped so far followed by the items
\* still queued are the items pushed, in the order of the appends; nothing
\* is reordered or skipped, and the items of each producer come out in the
\* order that producer pushed them (payloads 1, 2, ...).
C4_Linearizable ==
    /\ Popped \o deque_ = pushed
    /\ \A p \in Threads :
          \A i \in 1..Len(From(Popped, p)) : From(Popped, p)[i].val = i

C4_Witness ==
    /\ Len(Popped) = MaxPush
    /\ \E p, q \in Threads : p # q /\ Popped[1].by = p /\ Popped[2].by = q
    /\ \E t \in Threads : pc[t] = "pop_unlock" /\ obs[t].parks > 0

\* C5: pop() has no outcome but an item: a call that found the deque empty
\* does not get past its wait before a later push has appended, what it takes
\* is an item pushed after it found the deque empty, and while nothing has
\* been pushed no call is past the wait and none has returned.
C5_PopBlocks ==
    /\ \A t \in Threads : pc[t] \in {"pop_front", "pop_unlock"} =>
          /\ Len(pushed) > obs[t].emptyAt
          /\ pc[t] = "pop_unlock" =>
                \E k \in 1..Len(pushed) :
                    /\ pushed[k] = value[t]
                    /\ obs[t].parks > 0 => k > obs[t].emptyAt
    /\ pushed = <<>> => Popped = <<>>

C5_Witness ==
    \E t \in Threads :
        /\ pc[t] = "pop_unlock" /\ obs[t].parks = 2 /\ obs[t].emptyAt = 1
        /\ value[t] = pushed[2]

\* C6: one producer, and N consumers that all blocked in pop() on the empty
\* queue.  There are never more consumers back from pop() than items pushed,
\* the items taken are the items pushed, each taken once and in order, and
\* whenever the producer is between two pushes and no consumer is on its
\* way, exactly k = min(pushes, N) consumers have returned and the other
\* N - k are still blocked on the condition variable.
Min(a, b) == IF a < b THEN a ELSE b
Returned == {u \in Consumers : pc[u] = "idle" /\ pushed # <<>>}
Settled ==
    /\ pc[Producer] = "idle"
    /\ \A u \in Consumers : pc[u] \in {"idle", "pop_parked"}

InCall(t) == pc[t] \in TimedPcs \ {"tp_lock"}
Window(t) == obs[t].callTime + time[t]

\* C7 (as stated): a timed pop returns the empty result only if no item was
\* ever in the queue during its window, from the call to call time + time.
C7_Original ==
    \A t \in Threads : pc[t] = "tp_empty" => ~obs[t].sawItem

\* C7 (amended): a timed pop returns the empty result only when its window
\* has elapsed and the queue is empty at its last check under the lock, every
\* item pushed so far having been removed by another pop or by clear; when no
\* call has removed anything, no item was in the queue during the window.
C7_EmptyOnlyIfDrained ==
    \A t \in Threads :
        pc[t] = "tp_empty" =>
            /\ mutex_ = t
            /\ deque_ = <<>>
            /\ now >= Window(t)
            /\ Len(removed) = Len(pushed)
            /\ removed = <<>> => ~obs[t].sawItem

C7_Witness ==
    \E t \in Threads :
        /\ pc[t] = "tp_empty"
        /\ time[t] > 0
        /\ obs[t].sawItem
        /\ obs[t].parks > 0
        /\ removed # <<>>
        /\ removed[1].op \in {"pop", "tpop"}

\* C8: a timed pop with duration zero is an immediate check.  Its wait is
\* over when it begins (the deadline is the time of entry), so it needs no
\* tick of the clock and no notification to end, it blocks at most once and
\* never again, its empty result is given on an empty queue, and on a queue
\* found non-empty it returns the front item without blocking.
C8_ZeroDuration ==
    \A t \in Threads :
        (InCall(t) /\ time[t] = 0) =>
            /\ deadline[t] <= now
            /\ obs[t].parks <= 1
            /\ pc[t] = "tp_empty" => deque_ = <<>>
            /\ obs[t].front # NoItem =>
                  /\ obs[t].parks = 0
                  /\ pc[t] = "tp_unlock" => value[t] = obs[t].front

C8_Witness ==
    \E t \in Threads :
        /\ pc[t] = "tp_empty"
        /\ time[t] = 0
        /\ now = obs[t].callTime
        /\ now = 0
        /\ pushed = <<>>
        /\ obs[t].parks = 1

\* C9: a timed pop that takes the lock while the queue is non-empty never
\* blocks on the condition variable, whatever its duration: it goes from the
\* predicate straight to the front item, which is still the front item when
\* it takes it, and that item is what it returns.
C9_NonEmptyNoWait ==
    \A t \in Threads :
        (InCall(t) /\ obs[t].front # NoItem) =>
            /\ obs[t].parks = 0
            /\ t \notin cv_
            /\ mutex_ = t
            /\ pc[t] \in {"tp_check", "tp_front", "tp_unlock"}
            /\ pc[t] \in {"tp_check", "tp_front"} =>
                  deque_ # <<>> /\ Head(deque_) = obs[t].front
            /\ pc[t] = "tp_unlock" =>
                  /\ value[t] = obs[t].front
                  /\ removed[Len(removed)] = [op |-> "tpop", item |-> obs[t].front]

C9_Witness ==
    \E t \in Threads :
        /\ pc[t] = "tp_unlock"
        /\ time[t] = MaxTime
        /\ now < deadline[t]
        /\ obs[t].front # NoItem
        /\ value[t] = obs[t].front

\* C10: a timed pop never reports the empty result before its deadline.  The
\* deadline is set once, not before call time + time, and stays the same for
\* the rest of the call; a call that is awake before the deadline with the
\* queue empty blocks again against that same deadline; the empty result is
\* reported only with the clock at or past the deadline.
C10_State ==
    \A t \in Threads :
        InCall(t) =>
            /\ deadline[t] >= Window(t)
            /\ pc[t] = "tp_empty" => now >= deadline[t] /\ now >= Window(t)

C10_Step ==
    \A t \in Threads :
        /\ (InCall(t) /\ pc'[t] \in TimedPcs) => deadline'[t] = deadline[t]
        /\ (pc[t] = "tp_status" /\ deque_ = <<>> /\ now < deadline[t]) =>
              pc'[t] \in {"tp_status", "tp_parked"}

LastPushCleared ==
    /\ Cleared # <<>>
    /\ Cleared[Len(Cleared)] = pushed[Len(pushed)]

\* C11: the queue is empty after clear.  A clear() that has done its work
\* holds the mutex over an empty deque, whatever the deque held; and as long
\* as no push has appended after the clear, the deque stays empty and no
\* pop, timed or not, gets past its wait to an item, so a timed pop in
\* progress can only end with the empty result.
C11_EmptyAfterClear ==
    /\ \A t \in Threads : pc[t] = "clear_unlock" => (mutex_ = t /\ deque_ = <<>>)
    /\ LastPushCleared =>
          /\ deque_ = <<>>
          /\ \A t \in Threads :
                pc[t] \notin {"pop_front", "pop_unlock", "tp_front", "tp_unlock"}

C11_Witness ==
    \E t \in Threads :
        /\ pc[t] = "tp_empty"
        /\ ~obs[t].sawItem
        /\ Len(pushed) = MaxPush
        /\ Cleared = pushed
        /\ pc[Producer] = "idle"

\* The position in the order of the appends of an item that was pushed, and
\* that position for the last item a clear() has discarded (0 when none has).
Idx(x) == CHOOSE k \in 1..Len(pushed) : pushed[k] = x
LastClearedIdx == IF Cleared = <<>> THEN 0 ELSE Idx(Cleared[Len(Cleared)])
ClearPcs == {"clear_lock", "clear_do", "clear_unlock"}

\* C12: clear() does not wake or unblock a thread parked in pop().  No step
\* of a clear() changes the set of threads blocked on the condition variable
\* or moves another thread; a pop() is past its wait only when an item has
\* been appended after the last item a clear() discarded, and the item it
\* returns was appended after that one and was never discarded by a clear().
C12_State ==
    \A t \in Threads :
        /\ pc[t] \in {"pop_front", "pop_unlock"} => Len(pushed) > LastClearedIdx
        /\ pc[t] = "pop_unlock" =>
              /\ \E k \in (LastClearedIdx + 1)..Len(pushed) : pushed[k] = value[t]
              /\ \A i \in 1..Len(Cleared) : Cleared[i] # value[t]

C12_Step ==
    \A t \in Threads :
        (pc[t] \in ClearPcs /\ pc'[t] # pc[t]) =>
            /\ cv_' = cv_
            /\ \A u \in Threads \ {t} : pc'[u] = pc[u]

C12_ClearWakesNobody == [](C12_State) /\ [][C12_Step]_vars

C12_Witness ==
    \E t \in Threads :
        /\ pc[t] = "pop_unlock"
        /\ obs[t].parks > 0
        /\ obs[t].emptyAt = 0
        /\ Len(pushed) = 2
        /\ Cleared = <<pushed[1]>>
        /\ value[t] = pushed[2]

\* ------------------------------------------------------------------------
\* Progress, under SpecLive.
PushPcs == {"push_lock", "push_append", "push_unlock", "push_notify"}

\* C13: push and clear never block.  A thread inside push or clear() is
\* never one of the threads blocked on the condition variable, a thread
\* blocked there does not own the mutex, the append has no guard on the
\* length of the deque, and every push and every clear() that was called
\* returns, whatever the consumers do.
C13_NoSuspend ==
    /\ \A t \in Threads : pc[t] \in PushPcs \cup ClearPcs => t \notin cv_
    /\ \A t \in cv_ : mutex_ # t

C13_PushClearComplete ==
    /\ [](C13_NoSuspend)
    /\ \A t \in Threads : (pc[t] \in PushPcs) ~> (pc[t] = "idle")
    /\ \A t \in Threads : (pc[t] \in ClearPcs) ~> (pc[t] = "idle")

C13_Witness ==
    /\ pc[Producer] = "push_notify"
    /\ Len(pushed) = MaxPush
    /\ Cleared # <<>>
    /\ Consumers \subseteq cv_

\* C14: no lost wake-up.  Whenever the deque holds an item while a consumer
\* is blocked on the condition variable, an item is eventually taken out of
\* the deque; and no consumer stays parked in pop() forever while the deque
\* stays non-empty forever.
C14_NoLostWakeup ==
    /\ \A n \in 0..MaxPush :
          (deque_ # <<>> /\ cv_ # {} /\ Len(removed) = n) ~> (Len(removed) > n)
    /\ \A t \in Threads : []<>(~(deque_ # <<>> /\ pc[t] = "pop_parked"))

C14_Witness ==
    /\ deque_ # <<>>
    /\ Len(pushed) = 1
    /\ \E t \in Untimed : pc[t] = "pop_parked" /\ t \in cv_
    /\ \E t \in Timed : pc[t] = "tp_parked" /\ t \in cv_ /\ now < deadline[t]

\* C15: spurious wake-ups are harmless.  With any blocked thread free to
\* leave its wait at any moment, a pop reads the front only of a non-empty
\* deque whose mutex it owns; the item a pop returns is a pushed item that
\* left the deque once, in that pop; and a timed pop is at its empty result
\* only with the clock at or past its deadline and the deque empty.
C15_SpuriousHarmless ==
    \A t \in Threads :
        /\ pc[t] \in {"pop_front", "tp_front"} => (mutex_ = t /\ deque_ # <<>>)
        /\ pc[t] \in Taken =>
              /\ value[t] # NoItem
              /\ Count(pushed, value[t]) = 1
              /\ Count(Items(removed), value[t]) = 1
              /\ removed[Len(removed)].item = value[t]
              /\ removed[Len(removed)].op = (IF pc[t] = "pop_unlock" THEN "pop" ELSE "tpop")
        /\ pc[t] = "tp_empty" => (now >= deadline[t] /\ deque_ = <<>>)

\* A pop() that blocked twice although only one item was ever pushed, and
\* then took that item: its first wake came before any notification.
C15_Witness ==
    \E t \in Threads :
        /\ pc[t] = "pop_unlock"
        /\ obs[t].parks = 2
        /\ Len(pushed) = 1
        /\ value[t] = pushed[1]

\* ------------------------------------------------------------------------
\* The positions at which a thread is between taking the mutex and releasing
\* it, and those at which it reads or changes the deque.
Critical == {"push_append", "push_unlock", "pop_wait", "pop_front", "pop_unlock",
             "tp_check", "tp_status", "tp_front", "tp_unlock", "tp_empty",
             "clear_do", "clear_unlock"}
Accessing == {"push_append", "pop_wait", "pop_front", "tp_check", "tp_status",
              "tp_front", "clear_do"}

\* C16: mutual exclusion.  A thread is between lock and unlock exactly when
\* it is the owner of the mutex, so at most one thread is; a thread blocked
\* on the condition variable is not the owner; a thread about to read or
\* change the deque is the owner; and every step that changes the deque is a
\* step of the owner, which keeps the mutex through it.
C16_State ==
    /\ \A t \in Threads : pc[t] \in Critical <=> mutex_ = t
    /\ Cardinality({t \in Threads : pc[t] \in Critical}) <= 1
    /\ \A t \in Threads : t \in cv_ <=> pc[t] \in {"pop_parked", "tp_parked"}
    /\ \A t \in cv_ : mutex_ # t
    /\ \A t \in Threads : pc[t] \in Accessing => mutex_ = t

C16_Step ==
    deque_' # deque_ =>
        /\ mutex_ \in Threads
        /\ mutex_' = mutex_
        /\ pc[mutex_] \in {"push_append", "pop_front", "tp_front", "clear_do"}
        /\ pc'[mutex_] # pc[mutex_]
        /\ \A u \in Threads \ {mutex_} : pc'[u] = pc[u]

C16_MutualExclusion == [](C16_State) /\ [][C16_Step]_vars

C16_Witness ==
    \E t, u \in Consumers :
        /\ pc[t] = "pop_front"
        /\ pc[u] = "tp_woken"
        /\ pc[Producer] \in {"push_lock", "clear_lock"}
        /\ Len(deque_) = 1

\* C17: the order of the steps of a push.  It takes the mutex, appends its
\* item at the back while it owns the mutex, releases the mutex, and only
\* then notifies, once, and returns.  While it is about to notify, its item
\* has been appended and the mutex is no longer its own.  The notification
\* takes at most one thread out of the threads blocked on the condition
\* variable, moves no other thread, and changes nothing when none is blocked.
C17_State ==
    \A t \in Threads :
        /\ pc[t] \in {"push_lock", "push_append"} => Count(pushed, item[t]) = 0
        /\ pc[t] \in {"push_unlock", "push_notify"} => Count(pushed, item[t]) = 1
        /\ pc[t] = "push_notify" => mutex_ # t

C17_Step ==
    \A t \in Threads :
        (pc[t] \in PushPcs /\ pc'[t] # pc[t]) =>
            \/ /\ pc[t] = "push_lock" /\ pc'[t] = "push_append"
               /\ mutex_ = 0 /\ mutex_' = t
               /\ deque_' = deque_ /\ cv_' = cv_
            \/ /\ pc[t] = "push_append" /\ pc'[t] = "push_unlock"
               /\ mutex_ = t /\ mutex_' = t
               /\ deque_' = Append(deque_, item[t]) /\ cv_' = cv_
            \/ /\ pc[t] = "push_unlock" /\ pc'[t] = "push_notify"
               /\ mutex_ = t /\ mutex_' = 0
               /\ deque_' = deque_ /\ cv_' = cv_
            \/ /\ pc[t] = "push_notify" /\ pc'[t] = "idle"
               /\ mutex_' = mutex_ /\ deque_' = deque_
               /\ cv_' \subseteq cv_
               /\ Cardinality(cv_ \ cv_') <= 1
               /\ cv_ = {} => cv_' = {}
               /\ \A u \in Threads \ {t} : pc'[u] # pc[u] <=> u \in cv_ \ cv_'

C17_PushOrder == [](C17_State) /\ [][C17_Step]_vars

C17_Witness ==
    \E t, u \in Consumers :
        /\ pc[Producer] = "idle"
        /\ Len(pushed) = 1
        /\ deque_ = pushed
        /\ pc[t] \in {"pop_woken", "tp_woken"}
        /\ u \in cv_
        /\ now = 0

\* C18: a timed pop decides its outcome by the predicate, evaluated while it
\* owns the mutex.  It is at its empty result only as the owner of the mutex,
\* with the deque empty and the clock at or past the deadline; a check that
\* finds an item goes to the front of the deque, deadline passed or not, and
\* never to the empty result; a check that finds none gives the empty result
\* only when the deadline has passed; and returning the empty result leaves
\* the deque and the history of removals as they were.
C18_State ==
    \A t \in Threads :
        pc[t] = "tp_empty" =>
            (mutex_ = t /\ deque_ = <<>> /\ now >= deadline[t] /\ value[t] = NoItem)

C18_Step ==
    \A t \in Threads :
        /\ (pc[t] \in {"tp_check", "tp_status"} /\ pc'[t] # pc[t]) =>
              /\ mutex_ = t
              /\ deque_' = deque_
              /\ deque_ # <<>> => pc'[t] = "tp_front"
              /\ pc'[t] = "tp_front" => deque_ # <<>>
              /\ pc'[t] = "tp_empty" => (pc[t] = "tp_status" /\ now >= deadline[t])
        /\ (pc[t] = "tp_empty" /\ pc'[t] # pc[t]) =>
              /\ pc'[t] = "idle"
              /\ deque_' = deque_
              /\ removed' = removed
              /\ pushed' = pushed
              /\ cv_' = cv_

C18_DecidedUnderLock == [](C18_State) /\ [][C18_Step]_vars

\* A timed pop that blocked once, left its wait before the producer issued
\* its notification, and with the deadline passed found an item at its check.
C18_Witness ==
    \E t \in Threads :
        /\ pc[t] = "tp_front"
        /\ time[t] > 0
        /\ now >= deadline[t]
        /\ obs[t].parks = 1
        /\ Len(pushed) = 1
        /\ pc[Producer] = "push_notify"

\* C19: bounded waiting of the timed pop.  Under SpecLive every pop(time)
\* that was called returns, with an item or with the empty result, whether
\* or not a push occurs and whatever spurious wake-ups happen; and a call
\* blocked on the condition variable when its deadline has passed leaves the
\* wait.
C19_TimedPopReturns ==
    /\ \A t \in Threads : (pc[t] \in TimedPcs) ~> (pc[t] = "idle")
    /\ \A t \in Threads :
          (pc[t] = "tp_parked" /\ now >= deadline[t]) ~> (pc[t] # "tp_parked")

C19_Witness ==
    \E t \in Timed :
        /\ pc[t] = "tp_parked"
        /\ time[t] > 0
        /\ now >= deadline[t]
        /\ obs[t].parks = 2
        /\ pushed = <<>>

\* C20: conservation with clear().  In every state each pushed item is in
\* exactly one place: in the deque, among the items returned by the pops
\* (once), or among the items discarded by clear() (once); nothing else is in
\* any of the three; an item a pop is about to return was not discarded by a
\* clear(); and the length of the deque is the number of pushes completed
\* minus the items popped minus the items cleared.
C20_Conservation ==
    /\ \A i \in 1..Len(pushed) :
          Count(deque_, pushed[i]) + Count(Popped, pushed[i]) + Count(Cleared, pushed[i]) = 1
    /\ \A i \in 1..Len(deque_) : Count(pushed, deque_[i]) = 1
    /\ \A i \in 1..Len(removed) : Count(pushed, removed[i].item) = 1
    /\ \A t \in Threads :
          pc[t] \in Taken => (Count(Cleared, value[t]) = 0 /\ Count(Popped, value[t]) = 1)
    /\ Len(deque_) = Len(pushed) - Len(Popped) - Len(Cleared)

C20_Witness ==
    /\ pc[Producer] = "clear_unlock"
    /\ Len(pushed) = 2
    /\ Popped = <<pushed[1]>>
    /\ Cleared = <<pushed[2]>>
    /\ removed[1].op = "tpop"

====
